---------------------------- MODULE Spec2Model ----------------------------
(***************************************************************************)
(* Top 10 Allocation (src/app.py): one press of "Refresh Data".            *)
(*                                                                         *)
(* The refresh handler runs fetch_data(TICKERS), then                      *)
(* get_fx_gbp_usd_with_sources(), then the allocation arithmetic.  Every   *)
(* network request is one step of the model and its outcome is an input    *)
(* chosen by the environment; the Python that follows a request, up to the *)
(* next request or to the return of get_fx_gbp_usd_with_sources, belongs   *)
(* to the step of that request.  The arithmetic after the return is one    *)
(* more step.                                                              *)
(*                                                                         *)
(* Python floats are modelled as exact rationals extended with inf, -inf   *)
(* and nan (rounding is not modelled).  The details dict of the FX         *)
(* resolver is modelled by its key set.  The "Market Cap" column is held   *)
(* in units of 10^9 dollars, the unit of Finnhub's marketCapitalization.   *)
(***************************************************************************)
EXTENDS Integers, Sequences, FiniteSets, TLC

(***************************************************************************)
(* Bounds of the model and constants of the program                        *)
(***************************************************************************)
\* how many of the ten TICKERS a refresh of the model fetches
NumTickers == 2

\* _get_finnhub(path, params=None, retries=3, sleep=0.6); sleep in tenths of a second
retries == 3
sleepTenths == 6

\* gbp_to_usd = 1.35, as the fraction FallbackNum / FallbackDen
FallbackNum == 135
FallbackDen == 100

TICKERS == <<"AAPL", "MSFT", "NVDA", "GOOGL", "GOOG", "AMZN", "META", "AVGO", "TSLA", "BRK-B">>

Tickers == SubSeq(TICKERS, 1, NumTickers)

\* st.number_input(min_value=0, ...): the budgets the model tries
Budgets == {0, 1000}

(***************************************************************************)
(* Python floats: [k, n, d] is n/d when k = "fin", else inf, -inf or nan   *)
(***************************************************************************)
Abs(i) == IF i < 0 THEN -i ELSE i

RECURSIVE Gcd(_, _)
Gcd(a, b) == IF b = 0 THEN a ELSE Gcd(b, a % b)

Fin(n, d) ==
    LET g == Gcd(Abs(n), Abs(d))
        s == IF d < 0 THEN -1 ELSE 1
    IN  [k |-> "fin", n |-> s * (n \div g), d |-> s * (d \div g)]

Inf == [k |-> "inf", n |-> 1, d |-> 1]
NegInf == [k |-> "ninf", n |-> -1, d |-> 1]
NaN == [k |-> "nan", n |-> 0, d |-> 1]
Zero == Fin(0, 1)
One == Fin(1, 1)

IsNaN(x) == x.k = "nan"
IsFinite(x) == x.k = "fin"
IsZero(x) == x.k = "fin" /\ x.n = 0

\* -1, 0 or 1; nan has no sign and is never asked for one
Sgn(x) == IF x.n > 0 THEN 1 ELSE IF x.n < 0 THEN -1 ELSE 0

SignedInf(s) == IF s > 0 THEN Inf ELSE NegInf

\* x > 0 as Python and numpy evaluate it: False for nan
GtZero(x) == ~IsNaN(x) /\ Sgn(x) > 0

\* a > b for two floats, False when either is nan
Gt(a, b) ==
    /\ ~IsNaN(a) /\ ~IsNaN(b)
    /\ IF IsFinite(a) /\ IsFinite(b) THEN a.n * b.d > b.n * a.d
       ELSE IF a.k = b.k THEN FALSE
       ELSE a.k = "inf" \/ b.k = "ninf"

\* a == b for two floats, False when either is nan
Eq(a, b) == ~IsNaN(a) /\ ~IsNaN(b) /\ a = b

XMul(a, b) ==
    IF IsNaN(a) \/ IsNaN(b) THEN NaN
    ELSE IF IsFinite(a) /\ IsFinite(b) THEN Fin(a.n * b.n, a.d * b.d)
    ELSE IF Sgn(a) = 0 \/ Sgn(b) = 0 THEN NaN
    ELSE SignedInf(Sgn(a) * Sgn(b))

XAdd(a, b) ==
    IF IsNaN(a) \/ IsNaN(b) THEN NaN
    ELSE IF IsFinite(a) /\ IsFinite(b) THEN Fin(a.n * b.d + b.n * a.d, a.d * b.d)
    ELSE IF IsFinite(a) THEN b
    ELSE IF IsFinite(b) THEN a
    ELSE IF a.k = b.k THEN a ELSE NaN

\* a / b of numpy and of Python for b # 0 (Python raises ZeroDivisionError for
\* b = 0; numpy yields nan or a signed inf)
XDiv(a, b) ==
    IF IsNaN(a) \/ IsNaN(b) THEN NaN
    ELSE IF IsFinite(a) /\ IsFinite(b)
         THEN IF b.n # 0 THEN Fin(a.n * b.d, a.d * b.n)
              ELSE IF a.n = 0 THEN NaN ELSE SignedInf(Sgn(a))
    ELSE IF IsFinite(a) THEN Zero
    ELSE IF IsFinite(b) THEN SignedInf(Sgn(a) * (IF Sgn(b) < 0 THEN -1 ELSE 1))
    ELSE NaN

RECURSIVE XSum(_)
XSum(s) == IF s = <<>> THEN Zero ELSE XAdd(XSum(SubSeq(s, 1, Len(s) - 1)), s[Len(s)])

(***************************************************************************)
(* JSON as the code reads it                                               *)
(*   a field value: absent/None, a string that is no number, or a number   *)
(*   a response: None, a non-empty JSON array, or an object with the field *)
(***************************************************************************)
Missing == [t |-> "missing", x |-> Zero]
Str == [t |-> "str", x |-> Zero]
Num(x) == [t |-> "num", x |-> x]

\* bool(v)
Truthy(v) == v.t = "str" \/ (v.t = "num" /\ ~IsZero(v.x))

\* float(v) raises TypeError for None and ValueError for a string that is no number
FloatRaises(v) == v.t # "num"

None == [s |-> "none", v |-> Missing]
NonObj == [s |-> "nonobj", v |-> Missing]
Obj(v) == [s |-> "obj", v |-> v]

FxValues == {Missing, Str, Num(Zero), Num(Fin(-5, 4)), Num(Fin(13, 10)), Num(Inf), Num(NaN)}
PriceValues == {Missing, Str, Num(Zero), Num(Fin(-1, 1)), Num(Fin(100, 1)), Num(Fin(50, 1)), Num(NaN)}
CapValues == {Missing, Str, Num(Zero), Num(Fin(-1, 1)), Num(Fin(900, 1)), Num(Fin(100, 1)), Num(NaN)}

Bodies(values) == {NonObj} \cup {Obj(v) : v \in values}


\* what requests.get(...).json() can do in the two ECB blocks: requests.get raises,
\* r.json() raises, or a parsed body
Exc == [s |-> "exc", v |-> Missing]
BadJson == [s |-> "badjson", v |-> Missing]
EcbResponses == {Exc, BadJson} \cup Bodies(FxValues)

\* one attempt of _get_finnhub: requests.get raises, a status other than 200,
\* status 200 with a body r.json() cannot parse, or status 200 with a parsed body
AttemptFailures == {"exc", "non200", "badjson"}

(***************************************************************************)
(* get_fx_gbp_usd_with_sources: the providers                              *)
(***************************************************************************)
ECB_GBP == 1
ECB_USD == 2
FINNHUB_RATES == 3
CANDLE_1M == 4
CANDLE_5M == 5
CANDLE_15M == 6
Providers == ECB_GBP .. CANDLE_15M

RESOLUTIONS == <<"1", "5", "15">>

\* the provider of the candle loop's pass number res
CandleProvider(res) == FINNHUB_RATES + res

FallbackLabel == "fallback 1.35"
Label(p) ==
    CASE p = ECB_GBP -> "ECB (GBP base)"
      [] p = ECB_USD -> "ECB (USD base, inverted)"
      [] p = FINNHUB_RATES -> "Finnhub forex/rates"
      [] p = CANDLE_1M -> "Finnhub OANDA candle 1m"
      [] p = CANDLE_5M -> "Finnhub OANDA candle 5m"
      [] p = CANDLE_15M -> "Finnhub OANDA candle 15m"

RawKey(p) ==
    CASE p = ECB_GBP -> "ecb_gbp_base_raw"
      [] p = ECB_USD -> "ecb_usd_base_raw"
      [] p = FINNHUB_RATES -> "finnhub_rates_raw"
      [] p = CANDLE_1M -> "finnhub_candle_1m_raw"
      [] p = CANDLE_5M -> "finnhub_candle_5m_raw"
      [] p = CANDLE_15M -> "finnhub_candle_15m_raw"

ErrorKey(p) ==
    CASE p = ECB_GBP -> "ecb_gbp_base_error"
      [] p = ECB_USD -> "ecb_usd_base_error"
      [] p = FINNHUB_RATES -> "finnhub_rates_parse_error"
      [] p = CANDLE_1M -> "finnhub_candle_1m_parse_error"
      [] p = CANDLE_5M -> "finnhub_candle_5m_parse_error"
      [] p = CANDLE_15M -> "finnhub_candle_15m_parse_error"

\* what one provider block does: return a rate, fall through to the next
\* block, or let an exception escape the function
Returns(rate, inv, src, keys) ==
    [kind |-> "return", rate |-> rate, inv |-> inv, src |-> src, keys |-> keys]
FallsThrough(keys) ==
    [kind |-> "next", rate |-> NaN, inv |-> NaN, src |-> "", keys |-> keys]
Escapes(keys) ==
    [kind |-> "raise", rate |-> NaN, inv |-> NaN, src |-> "", keys |-> keys]

\* block 1 without its return statement: the rate is found and the function goes on
EcbGbpBaseKeepsGoing(r) ==
    IF r.s \in {"exc", "badjson"} THEN FallsThrough({ErrorKey(ECB_GBP)})
    ELSE IF r.s = "nonobj" THEN FallsThrough({RawKey(ECB_GBP), ErrorKey(ECB_GBP)})
    ELSE IF ~Truthy(r.v) THEN FallsThrough({RawKey(ECB_GBP)})
    ELSE IF FloatRaises(r.v) THEN FallsThrough({RawKey(ECB_GBP), ErrorKey(ECB_GBP)})
    ELSE FallsThrough({RawKey(ECB_GBP)})

\* 1) ECB (GBP base)
EcbGbpBase(r) ==
    IF r.s \in {"exc", "badjson"} THEN FallsThrough({ErrorKey(ECB_GBP)})
    ELSE IF r.s = "nonobj" THEN FallsThrough({RawKey(ECB_GBP), ErrorKey(ECB_GBP)})
    ELSE IF ~Truthy(r.v) THEN FallsThrough({RawKey(ECB_GBP)})
    ELSE IF FloatRaises(r.v) THEN FallsThrough({RawKey(ECB_GBP), ErrorKey(ECB_GBP)})
    ELSE IF GtZero(r.v.x)
         THEN Returns(r.v.x, XDiv(One, r.v.x), Label(ECB_GBP), {RawKey(ECB_GBP)})
    ELSE FallsThrough({RawKey(ECB_GBP)})

\* 2) ECB (USD base), inverted
EcbUsdBase(r) ==
    IF r.s \in {"exc", "badjson"} THEN FallsThrough({ErrorKey(ECB_USD)})
    ELSE IF r.s = "nonobj" THEN FallsThrough({RawKey(ECB_USD), ErrorKey(ECB_USD)})
    ELSE IF ~Truthy(r.v) THEN FallsThrough({RawKey(ECB_USD)})
    ELSE IF FloatRaises(r.v) THEN FallsThrough({RawKey(ECB_USD), ErrorKey(ECB_USD)})
    ELSE IF GtZero(r.v.x)
         THEN Returns(XDiv(One, r.v.x), r.v.x, Label(ECB_USD), {RawKey(ECB_USD)})
    ELSE FallsThrough({RawKey(ECB_USD)})

\* block 3 with details["finnhub_rates_raw"] = data moved under "if data"
FinnhubRatesRawIfData(data) ==
    IF data.s = "none" THEN FallsThrough({})
    ELSE IF data.s = "nonobj" THEN Escapes({RawKey(FINNHUB_RATES)})
    ELSE IF ~Truthy(data.v) THEN FallsThrough({RawKey(FINNHUB_RATES)})
    ELSE IF FloatRaises(data.v) \/ IsZero(data.v.x)
         THEN FallsThrough({RawKey(FINNHUB_RATES), ErrorKey(FINNHUB_RATES)})
    ELSE Returns(data.v.x, XDiv(One, data.v.x), Label(FINNHUB_RATES), {RawKey(FINNHUB_RATES)})

\* 3) Finnhub forex/rates; data is what _get_finnhub returned.  data.get is
\* outside the try, float(v) and 1.0 / gbp_to_usd are inside it
FinnhubRates(data) ==
    IF data.s = "none" THEN FallsThrough({RawKey(FINNHUB_RATES)})
    ELSE IF data.s = "nonobj" THEN Escapes({RawKey(FINNHUB_RATES)})
    ELSE IF ~Truthy(data.v) THEN FallsThrough({RawKey(FINNHUB_RATES)})
    ELSE IF FloatRaises(data.v) \/ IsZero(data.v.x)
         THEN FallsThrough({RawKey(FINNHUB_RATES), ErrorKey(FINNHUB_RATES)})
    ELSE Returns(data.v.x, XDiv(One, data.v.x), Label(FINNHUB_RATES), {RawKey(FINNHUB_RATES)})

\* 4) one pass of the candle loop; the field of the body is c[-1] when
\* s == "ok" and c is non-empty, and absent otherwise
FinnhubCandle(p, candles) ==
    IF candles.s = "none" THEN FallsThrough({RawKey(p)})
    ELSE IF candles.s = "nonobj" THEN Escapes({RawKey(p)})
    ELSE IF candles.v.t = "missing" THEN FallsThrough({RawKey(p)})
    ELSE IF FloatRaises(candles.v) THEN FallsThrough({RawKey(p), ErrorKey(p)})
    ELSE IF GtZero(candles.v.x)
         THEN Returns(candles.v.x, XDiv(One, candles.v.x), Label(p), {RawKey(p)})
    ELSE FallsThrough({RawKey(p)})

\* 5) Fallback
Fallback == Returns(Fin(FallbackNum, FallbackDen), XDiv(One, Fin(FallbackNum, FallbackDen)),
                    FallbackLabel, {"fallback_used"})

\* the candle loop's pass for provider p followed, after the last resolution,
\* by the fallback
CandleOrFallback(p, candles) ==
    LET c == FinnhubCandle(p, candles)
    IN  IF c.kind = "next" /\ p = CANDLE_15M
        THEN [Fallback EXCEPT !.keys = c.keys \cup Fallback.keys]
        ELSE c

(***************************************************************************)
(* fetch_data                                                              *)
(***************************************************************************)
\* float(q.get(field, 0)) if q else 0.0, and whether evaluating it raises
FieldRaises(q) == q.s = "nonobj" \/ (q.s = "obj" /\ q.v.t = "str")
FieldValue(q) == IF q.s = "obj" /\ q.v.t = "num" THEN q.v.x ELSE Zero

\* the loop body with "if price > 0" in place of "if price > 0 and mcap_bil > 0"
RowsForPriceOnly(tk, q, p) ==
    IF FieldRaises(q) \/ FieldRaises(p) THEN <<>>
    ELSE IF GtZero(FieldValue(q))
         THEN << [Ticker |-> tk, Price |-> FieldValue(q), MarketCap |-> FieldValue(p)] >>
    ELSE <<>>

\* the body of the loop for one ticker: the row appended, if any
RowsFor(tk, q, p) ==
    IF FieldRaises(q) \/ FieldRaises(p) THEN <<>>
    ELSE IF GtZero(FieldValue(q)) /\ GtZero(FieldValue(p))
         THEN << [Ticker |-> tk, Price |-> FieldValue(q), MarketCap |-> FieldValue(p)] >>
    ELSE <<>>

Reorder(rows, f) == [i \in 1 .. Len(rows) |-> rows[f[i]]]

IsDescending(s) == \A i \in 1 .. Len(s) - 1 : ~Gt(s[i + 1].MarketCap, s[i].MarketCap)

\* df.sort_values("Market Cap", ascending=False): kind defaults to "quicksort",
\* which is not a stable sort, so rows of equal Market Cap come out in any order
SortValues(rows) ==
    {Reorder(rows, f) : f \in {g \in Permutations(1 .. Len(rows)) : IsDescending(Reorder(rows, g))}}


(***************************************************************************)
(* The allocation of the refresh handler                                   *)
(***************************************************************************)
Column(df, name) == [i \in 1 .. Len(df) |-> df[i][name]]

\* total_mcap = df["Market Cap"].sum()
TotalMcap(df) == XSum(Column(df, "MarketCap"))

\* df["Weight %"], df["$ Allocation"], df["£ Allocation"], df["Est. Shares"]
Allocation(df, usd_budget, usd_to_gbp_) ==
    [i \in 1 .. Len(df) |->
        LET w == XDiv(df[i].MarketCap, TotalMcap(df))
            usd == XMul(usd_budget, w)
        IN  [Ticker |-> df[i].Ticker, Price |-> df[i].Price, MarketCap |-> df[i].MarketCap,
             Weight |-> w, UsdAllocation |-> usd,
             GbpAllocation |-> XMul(usd, usd_to_gbp_),
             EstShares |-> XDiv(usd, df[i].Price)]]

\* effective_rate = (total_usd / total_gbp) if total_gbp else float("nan")
EffectiveRate(total_usd, total_gbp) ==
    IF IsZero(total_gbp) THEN NaN ELSE XDiv(total_usd, total_gbp)

\* inverse_rate = (1.0 / effective_rate) if (effective_rate and effective_rate > 0) else nan
InverseRate(eff) == IF ~IsZero(eff) /\ GtZero(eff) THEN XDiv(One, eff) ELSE NaN

(***************************************************************************)
(* State                                                                   *)
(***************************************************************************)
VARIABLES
    pc,            \* where the refresh handler is
    gbp_budget,    \* the number input
    k,             \* fetch_data: index of the ticker of the loop
    q,             \* fetch_data: the quote of that ticker
    rows,          \* fetch_data: rows
    df,            \* the frame fetch_data returned
    fh,            \* _get_finnhub: the call in progress, or the last call
    res,           \* get_fx_gbp_usd_with_sources: pass of the candle loop
    details,       \* get_fx_gbp_usd_with_sources: keys of details
    gbp_to_usd, usd_to_gbp, fx_src,  \* what get_fx_gbp_usd_with_sources returned
    view,          \* what the handler rendered: nothing yet, the warning, or the table
    out_df,        \* the rows of the table
    effective_rate, inverse_rate,
    calls,         \* history: the FX providers invoked, in order
    answer,        \* history: the number of the last usable FX response
    failed,        \* history: the FX providers whose response carried no usable rate
    good           \* history: the tickers whose quote and profile were both positive

vars == <<pc, gbp_budget, k, q, rows, df, fh, res, details, gbp_to_usd, usd_to_gbp, fx_src,
          view, out_df, effective_rate, inverse_rate, calls, answer, failed, good>>

fxVars == <<res, details, gbp_to_usd, usd_to_gbp, fx_src, calls, answer, failed>>
fetchVars == <<k, q, rows, df, good>>
outVars == <<view, out_df, effective_rate, inverse_rate>>

\* a response that carries a number, finite and > 0, in the field the code reads
Usable(r) == r.s = "obj" /\ r.v.t = "num" /\ IsFinite(r.v.x) /\ GtZero(r.v.x)

Idle == [st |-> "idle", i |-> 0, waits |-> <<>>]

Init ==
    /\ pc = "quote"
    /\ gbp_budget \in Budgets
    /\ k = 1
    /\ q = None
    /\ rows = <<>>
    /\ df = <<>>
    /\ fh = Idle
    /\ res = 1
    /\ details = {}
    /\ gbp_to_usd = NaN
    /\ usd_to_gbp = NaN
    /\ fx_src = ""
    /\ view = "none"
    /\ out_df = <<>>
    /\ effective_rate = NaN
    /\ inverse_rate = NaN
    /\ calls = <<>>
    /\ answer = NaN
    /\ failed = {}
    /\ good = {}

(***************************************************************************)
(* get_fx_gbp_usd_with_sources: what a provider block's result does        *)
(***************************************************************************)
\* where the function goes after provider p fell through
AfterProvider(p) ==
    CASE p = ECB_GBP -> "ecb2"
      [] p = ECB_USD -> "rates"
      [] OTHER -> "candle"

FxStep(p, r, b) ==
    /\ details' = details \cup b.keys
    /\ failed' = IF Usable(r) THEN failed ELSE failed \cup {p}
    /\ answer' = IF Usable(r) THEN r.v.x ELSE answer
    /\ res' = IF p \in {CANDLE_1M, CANDLE_5M} /\ b.kind = "next" THEN res + 1 ELSE res
    /\ IF b.kind = "return"
       THEN /\ gbp_to_usd' = b.rate
            /\ usd_to_gbp' = b.inv
            /\ fx_src' = b.src
            /\ pc' = "alloc"
       ELSE /\ UNCHANGED <<gbp_to_usd, usd_to_gbp, fx_src>>
            /\ pc' = IF b.kind = "raise" THEN "raised" ELSE AfterProvider(p)

\* requests.get for ECB (GBP base) and the rest of block 1
EcbGbp ==
    /\ pc = "ecb1"
    /\ \E r \in EcbResponses : FxStep(ECB_GBP, r, EcbGbpBase(r))
    /\ calls' = Append(calls, ECB_GBP)
    /\ UNCHANGED <<gbp_budget, fh>>
    /\ UNCHANGED fetchVars
    /\ UNCHANGED outVars

\* requests.get for ECB (USD base) and the rest of block 2
EcbUsd ==
    /\ pc = "ecb2"
    /\ \E r \in EcbResponses : FxStep(ECB_USD, r, EcbUsdBase(r))
    /\ calls' = Append(calls, ECB_USD)
    /\ UNCHANGED <<gbp_budget, fh>>
    /\ UNCHANGED fetchVars
    /\ UNCHANGED outVars

(***************************************************************************)
(* fetch_data: the loop body once both requests of a ticker are answered   *)
(***************************************************************************)
FetchStep(p) ==
    LET tk == Tickers[k]
        new == rows \o RowsFor(tk, q, p)
    IN  /\ rows' = new
        /\ good' = IF Usable(q) /\ Usable(p) THEN good \cup {tk} ELSE good
        /\ k' = k + 1
        /\ q' = None
        /\ IF k = Len(Tickers)
           THEN /\ df' \in SortValues(new)
                /\ pc' = "ecb1"
           ELSE /\ df' = df
                /\ pc' = "quote"

(***************************************************************************)
(* _get_finnhub                                                            *)
(***************************************************************************)
\* the bodies the endpoint of the call in progress can answer with
BodiesAt(at) ==
    CASE at = "quote" -> Bodies(PriceValues)
      [] at = "profile" -> Bodies(CapValues)
      [] OTHER -> Bodies(FxValues)

\* the caller goes on with what _get_finnhub returned
Resume(r) ==
    CASE pc = "quote" ->
            /\ q' = r
            /\ pc' = "profile"
            /\ UNCHANGED <<k, rows, df, good>>
            /\ UNCHANGED fxVars
      [] pc = "profile" ->
            /\ FetchStep(r)
            /\ UNCHANGED fxVars
      [] pc = "rates" ->
            /\ FxStep(FINNHUB_RATES, r, FinnhubRates(r))
            /\ UNCHANGED calls
            /\ UNCHANGED fetchVars
      [] pc = "candle" ->
            /\ FxStep(CandleProvider(res), r, CandleOrFallback(CandleProvider(res), r))
            /\ UNCHANGED calls
            /\ UNCHANGED fetchVars

\* a call of _get_finnhub: params, url, and the loop entered with i = 0
Call ==
    /\ pc \in {"quote", "profile", "rates", "candle"}
    /\ fh.st = "idle"
    /\ fh' = [st |-> "loop", i |-> 0, waits |-> <<>>]
    /\ calls' = CASE pc = "rates" -> Append(calls, FINNHUB_RATES)
                  [] pc = "candle" -> Append(calls, CandleProvider(res))
                  [] OTHER -> calls
    /\ UNCHANGED <<pc, gbp_budget, res, details, gbp_to_usd, usd_to_gbp, fx_src, answer, failed>>
    /\ UNCHANGED fetchVars
    /\ UNCHANGED outVars

\* for i in range(retries): is there another pass
InLoop(f) == f.st = "loop" /\ f.i < retries

\* requests.get answers with status 200 and a body r.json() parses: return r.json()
AttemptOk ==
    /\ InLoop(fh)
    /\ \E r \in BodiesAt(pc) : Resume(r)
    /\ fh' = Idle
    /\ UNCHANGED gbp_budget
    /\ UNCHANGED outVars

\* the end of a pass that did not return: time.sleep(sleep * (2 ** i))
AfterSleep(f) == [f EXCEPT !.waits = Append(@, sleepTenths * 2 ^ f.i), !.i = @ + 1]

\* requests.get raises, answers with another status, or r.json() raises; then the sleep
AttemptFails ==
    /\ InLoop(fh)
    /\ \E f \in AttemptFailures : fh' = AfterSleep(fh)
    /\ UNCHANGED <<pc, gbp_budget>>
    /\ UNCHANGED fetchVars
    /\ UNCHANGED fxVars
    /\ UNCHANGED outVars

\* the loop is exhausted: return None
ReturnNone ==
    /\ fh.st = "loop"
    /\ ~InLoop(fh)
    /\ Resume(None)
    /\ fh' = Idle
    /\ UNCHANGED gbp_budget
    /\ UNCHANGED outVars

(***************************************************************************)
(* The handler after get_fx_gbp_usd_with_sources returned                  *)
(***************************************************************************)
Allocate ==
    /\ pc = "alloc"
    /\ pc' = "done"
    /\ LET usd_budget == XMul(Fin(gbp_budget, 1), gbp_to_usd)
           table == Allocation(df, usd_budget, usd_to_gbp)
           total_usd == XSum(Column(table, "UsdAllocation"))
           total_gbp == XSum(Column(table, "GbpAllocation"))
       IN  IF df = <<>>
           THEN /\ view' = "warning"
                /\ UNCHANGED <<out_df, effective_rate, inverse_rate>>
           ELSE /\ view' = "table"
                /\ out_df' = table
                /\ effective_rate' = EffectiveRate(total_usd, total_gbp)
                /\ inverse_rate' = InverseRate(effective_rate')
    /\ UNCHANGED <<gbp_budget, fh>>
    /\ UNCHANGED fetchVars
    /\ UNCHANGED fxVars

Next == Call \/ AttemptOk \/ AttemptFails \/ ReturnNone \/ EcbGbp \/ EcbUsd \/ Allocate

Spec == Init /\ [][Next]_vars


(***************************************************************************)
(* The claims                                                              *)
(***************************************************************************)
Range(f) == {f[i] : i \in DOMAIN f}

FetchDone == pc \notin {"quote", "profile"}
FxReturned == pc \in {"alloc", "done"}
FxRaised == pc = "raised"
\* the last provider invoked is a Finnhub one and _get_finnhub has not returned yet
Pending(p) == p = Len(calls) /\ fh.st = "loop" /\ pc \in {"rates", "candle"}

FallbackRate == Fin(FallbackNum, FallbackDen)
\* the GBP->USD rate a usable answer of provider p stands for
RateOf(p, x) == IF p = ECB_USD THEN XDiv(One, x) ELSE x

TickerIndex(tk) == CHOOSE i \in 1 .. Len(TICKERS) : TICKERS[i] = tk

\* C1: the providers are invoked in priority order, one after the other; a
\* provider is invoked only when every earlier one has failed; and once a
\* provider has answered with a usable rate the function has returned that
\* rate under that provider's label, with no later provider invoked.
C1_PriorityOrder ==
    /\ calls = [i \in 1 .. Len(calls) |-> i]
    /\ Len(calls) <= CANDLE_15M
    /\ \A i \in 1 .. Len(calls) : \A j \in 1 .. i - 1 : j \in failed
    /\ \A p \in Range(calls) :
          (p \notin failed /\ ~Pending(p)) =>
              /\ FxReturned
              /\ p = Len(calls)
              /\ fx_src = Label(p)
              /\ gbp_to_usd = RateOf(p, answer)

\* C1 witness: the 5m candle answered with a usable rate after the four
\* providers before it failed, and the 15m candle was never asked
C1_Witness ==
    /\ FxReturned
    /\ fx_src = Label(CANDLE_5M)
    /\ calls = <<ECB_GBP, ECB_USD, FINNHUB_RATES, CANDLE_1M, CANDLE_5M>>
    /\ failed = {ECB_GBP, ECB_USD, FINNHUB_RATES, CANDLE_1M}

\* C2: when every provider has failed the function has returned exactly 1.35
\* under the fallback label; that label is the label of no live provider; and
\* the fallback label is returned only when every live provider failed.
C2_FallbackIffAllFailed ==
    /\ failed = Providers =>
          /\ FxReturned
          /\ fx_src = FallbackLabel
          /\ gbp_to_usd = FallbackRate
    /\ \A p \in Providers : Label(p) # FallbackLabel
    /\ (FxReturned /\ fx_src = FallbackLabel) =>
          /\ failed = Providers
          /\ gbp_to_usd = FallbackRate

\* C3: the rate the function returns is finite and > 0, and it is never the
\* value of a provider whose answer was missing, zero, negative or non-finite.
C3_RateFinitePositive ==
    FxReturned =>
        /\ IsFinite(gbp_to_usd)
        /\ GtZero(gbp_to_usd)
        /\ \A p \in failed : fx_src # Label(p)

\* C4: no exception escapes get_fx_gbp_usd_with_sources, whatever the
\* providers answer.
C4_NeverRaises == ~FxRaised

\* the worked example of C5: caps 900 and 100 at prices 100 and 50, budget 1000, rate 1.3
C5_Example ==
    (/\ Len(df) = 2
     /\ df[1].MarketCap = Fin(900, 1) /\ df[1].Price = Fin(100, 1)
     /\ df[2].MarketCap = Fin(100, 1) /\ df[2].Price = Fin(50, 1)
     /\ gbp_budget = 1000
     /\ gbp_to_usd = Fin(13, 10)) =>
        /\ out_df[1].Weight = Fin(9, 10) /\ out_df[2].Weight = Fin(1, 10)
        /\ out_df[1].UsdAllocation = Fin(1170, 1) /\ out_df[2].UsdAllocation = Fin(130, 1)
        /\ out_df[1].EstShares = Fin(117, 10) /\ out_df[2].EstShares = Fin(26, 10)

\* C5: for a non-empty frame the table conserves the budget: every weight is
\* Market Cap / total and lies in 0..1, the weights sum to 1, the $ allocations
\* sum to gbp_budget * gbp_to_usd and the GBP allocations sum to gbp_budget;
\* caps 900 and 100 at prices 100 and 50 with budget 1000 and rate 1.3 give
\* weights 0.9 and 0.1, $ 1170 and 130, and 11.7 and 2.6 shares.
C5_BudgetConserved ==
    (pc = "done" /\ df # <<>>) =>
        /\ view = "table"
        /\ Len(out_df) = Len(df)
        /\ \A i \in 1 .. Len(out_df) :
              /\ Eq(out_df[i].Weight, XDiv(df[i].MarketCap, TotalMcap(df)))
              /\ ~Gt(Zero, out_df[i].Weight) /\ ~Gt(out_df[i].Weight, One)
              /\ ~IsNaN(out_df[i].Weight)
        /\ Eq(XSum(Column(out_df, "Weight")), One)
        /\ Eq(XSum(Column(out_df, "UsdAllocation")), XMul(Fin(gbp_budget, 1), gbp_to_usd))
        /\ Eq(XSum(Column(out_df, "GbpAllocation")), Fin(gbp_budget, 1))
        /\ C5_Example

\* C6: when no ticker yielded a positive price and a positive market cap the
\* refresh ends at the warning with an empty table: no weight, allocation or
\* effective rate is computed and no error is raised.
C6_EmptyResult ==
    (FetchDone /\ good = {} /\ pc \in {"done", "raised"}) =>
        /\ pc = "done"
        /\ df = <<>>
        /\ view = "warning"
        /\ out_df = <<>>
        /\ IsNaN(effective_rate) /\ IsNaN(inverse_rate)

\* C7: _get_finnhub makes at most `retries` attempts; after the failed attempt
\* of index i it has waited sleep * 2^i; and a wait occurs only when another
\* attempt follows it, so fewer than `retries` waits are ever made.
C7_RetryBackoff ==
    fh.st = "loop" =>
        /\ fh.i <= retries
        /\ Len(fh.waits) = fh.i
        /\ \A j \in 1 .. Len(fh.waits) : fh.waits[j] = sleepTenths * 2 ^ (j - 1)
        /\ fh.waits # <<>> => InLoop(fh)

\* C8: the frame handed on is ordered by Market Cap descending and rows of
\* equal Market Cap stand in the order of TICKERS.
C8_StableDescending ==
    FetchDone =>
        /\ Len(df) = Len(rows)
        /\ Range(df) = Range(rows)
        /\ IsDescending(df)
        /\ \A i \in 1 .. Len(df) : \A j \in i + 1 .. Len(df) :
              df[i].MarketCap = df[j].MarketCap =>
                  TickerIndex(df[i].Ticker) < TickerIndex(df[j].Ticker)

C10_PositiveRowsOnly ==
    /\ {rows[i].Ticker : i \in 1 .. Len(rows)} = good
    /\ \A i \in 1 .. Len(rows) : GtZero(rows[i].Price) /\ GtZero(rows[i].MarketCap)
    /\ FxRaised => FetchDone
    /\ FetchDone =>
          /\ k = Len(Tickers) + 1
          /\ {df[i].Ticker : i \in 1 .. Len(df)} = good
          /\ df # <<>> => GtZero(TotalMcap(df))

\* C10 witness: the first ticker was dropped, the second has the only row,
\* and the table was computed from it
C10_Witness ==
    /\ pc = "done"
    /\ good = {Tickers[2]}
    /\ Len(df) = 1
    /\ view = "table"

=============================================================================
